---- MODULE Spec2Model ----
(***************************************************************************)
(* Model of the flag-set parser of cc_cut (src/src/flags.rs).              *)
(*                                                                         *)
(* A text (Rust String / &str) is a sequence of one-character strings, so  *)
(* that prefixes, first characters and per-character loops are computed    *)
(* as the code computes them.  Only ASCII characters are used: every       *)
(* character is one byte, as &s[..1] in the source assumes.                *)
(***************************************************************************)
EXTENDS Integers, Sequences, FiniteSets, TLC

VARIABLES
    inner,             \* FlagSet.inner: lookup key -> Flag (with its slot)
    pc,                \* "bind", "parse", "done" or "panic"
    bound,             \* the registry as it was when parse was called
    args,              \* the tokens the loop of parse has taken so far
    remaining,         \* parse: let mut remaining
    flag,              \* parse: let mut flag: Option<String>
    all_flags_parsed,  \* parse: let mut all_flags_parsed
    ret                \* what parse returned, once it has

vars == <<inner, pc, bound, args, remaining, flag, all_flags_parsed, ret>>

(***************************************************************************)
(* Bounds of the model.                                                    *)
(***************************************************************************)
MaxFlags == 2
MaxArgs == 3

(***************************************************************************)
(* Texts.                                                                  *)
(***************************************************************************)
Dash == "-"
DoubleDash == <<"-", "-">>
TrueText == <<"t", "r", "u", "e">>
FalseText == <<"f", "a", "l", "s", "e">>
ActivateMsg == "bound value should be of type bool"

StartsWith(s, p) == Len(s) >= Len(p) /\ SubSeq(s, 1, Len(p)) = p

StripPrefix(s, p) == SubSeq(s, Len(p) + 1, Len(s))

(***************************************************************************)
(* Bound values: a slot of one of the scalar types the blanket impl        *)
(* covers (bool, i32, char, String).  One record shape for all kinds.      *)
(***************************************************************************)
BoolV(x) == [kind |-> "bool", b |-> x, i |-> 0, s |-> <<>>]
IntV(x) == [kind |-> "int", b |-> FALSE, i |-> x, s |-> <<>>]
CharV(x) == [kind |-> "char", b |-> FALSE, i |-> 0, s |-> <<x>>]
StringV(x) == [kind |-> "string", b |-> FALSE, i |-> 0, s |-> x]

I32Max == (2^30 - 1) + 2^30
I32Min == (0 - I32Max) - 1

DigitChars == {"0", "1", "2", "3", "4", "5", "6", "7", "8", "9"}

DigitVal(c) ==
    CASE c = "0" -> 0 [] c = "1" -> 1 [] c = "2" -> 2 [] c = "3" -> 3
      [] c = "4" -> 4 [] c = "5" -> 5 [] c = "6" -> 6 [] c = "7" -> 7
      [] c = "8" -> 8 [] c = "9" -> 9

DigitChar(d) ==
    CASE d = 0 -> "0" [] d = 1 -> "1" [] d = 2 -> "2" [] d = 3 -> "3"
      [] d = 4 -> "4" [] d = 5 -> "5" [] d = 6 -> "6" [] d = 7 -> "7"
      [] d = 8 -> "8" [] d = 9 -> "9"

Ok(v) == [ok |-> TRUE, val |-> v, msg |-> ""]
Fail(v, m) == [ok |-> FALSE, val |-> v, msg |-> m]

\* i32::from_str on the digits s[i..], accumulated in acc with the sign neg
\* (checked_mul / checked_add / checked_sub: the overflow is tested before
\* the arithmetic is done).
RECURSIVE IntDigits(_, _, _, _, _)
IntDigits(old, s, i, acc, neg) ==
    IF i > Len(s) THEN Ok(IntV(acc))
    ELSE IF s[i] \notin DigitChars
         THEN Fail(old, "ParseIntError { kind: InvalidDigit }")
    ELSE IF ~neg /\ acc > (I32Max - DigitVal(s[i])) \div 10
         THEN Fail(old, "ParseIntError { kind: PosOverflow }")
    ELSE IF neg /\ (0 - acc) > (I32Max - DigitVal(s[i]) + 1) \div 10
         THEN Fail(old, "ParseIntError { kind: NegOverflow }")
    ELSE IntDigits(old, s, i + 1,
                   IF neg THEN acc * 10 - DigitVal(s[i])
                          ELSE acc * 10 + DigitVal(s[i]), neg)

\* <i32 as FromStr>::from_str
IntFromStr(old, s) ==
    IF Len(s) = 0 THEN Fail(old, "ParseIntError { kind: Empty }")
    ELSE IF s = <<"-">> \/ s = <<"+">>
         THEN Fail(old, "ParseIntError { kind: InvalidDigit }")
    ELSE IF s[1] = "-" THEN IntDigits(old, s, 2, 0, TRUE)
    ELSE IF s[1] = "+" THEN IntDigits(old, s, 2, 0, FALSE)
    ELSE IntDigits(old, s, 1, 0, FALSE)

\* <char as FromStr>::from_str
CharFromStr(old, s) ==
    IF Len(s) = 0 THEN Fail(old, "ParseCharError { kind: EmptyString }")
    ELSE IF Len(s) = 1 THEN Ok(CharV(s[1]))
    ELSE Fail(old, "ParseCharError { kind: TooManyChars }")

\* <bool as FromStr>::from_str
BoolFromStr(old, s) ==
    IF s = TrueText THEN Ok(BoolV(TRUE))
    ELSE IF s = FalseText THEN Ok(BoolV(FALSE))
    ELSE Fail(old, "ParseBoolError")

\* <String as FromStr>::from_str
StringFromStr(old, s) == Ok(StringV(s))

\* Value::parse_from_string of the blanket impl: the new slot value, or the
\* Debug rendering of the conversion error with the slot left as it was.
parse_from_string(v, s) ==
    CASE v.kind = "bool" -> BoolFromStr(v, s)
      [] v.kind = "int" -> IntFromStr(v, s)
      [] v.kind = "char" -> CharFromStr(v, s)
      [] v.kind = "string" -> StringFromStr(v, s)

RECURSIVE NatToText(_)
NatToText(n) ==
    IF n < 10 THEN <<DigitChar(n)>>
    ELSE Append(NatToText(n \div 10), DigitChar(n % 10))

\* Display::to_string of the slot
to_string(v) ==
    CASE v.kind = "bool" -> IF v.b THEN TrueText ELSE FalseText
      [] v.kind = "int" -> IF v.i < 0 THEN <<"-">> \o NatToText(0 - v.i)
                                      ELSE NatToText(v.i)
      [] v.kind = "char" -> v.s
      [] v.kind = "string" -> v.s

\* try_activate without the test of the rendering
try_activateAnyType(v) == parse_from_string(v, TrueText)

\* Value::try_activate of the blanket impl
try_activate(v) ==
    IF to_string(v) = TrueText \/ to_string(v) = FalseText
    THEN parse_from_string(v, TrueText)
    ELSE Fail(v, ActivateMsg)

(***************************************************************************)
(* ArgList<i32> (src/src/main.rs): a list slot with its own Value impl.    *)
(***************************************************************************)
ListV(xs) == [kind |-> "list", b |-> FALSE, i |-> 0, s |-> <<>>, l |-> xs]

Quote == "\""
Comma == ","
Space == " "

\* str::strip_prefix('"').unwrap_or(arg)
StripQuotePrefix(s) == IF Len(s) >= 1 /\ s[1] = Quote THEN Tail(s) ELSE s

\* str::strip_suffix('"').unwrap_or(arg)
StripQuoteSuffix(s) ==
    IF Len(s) >= 1 /\ s[Len(s)] = Quote THEN SubSeq(s, 1, Len(s) - 1) ELSE s

\* main.rs line 83
Separator(s) == IF \E i \in 1..Len(s) : s[i] = Comma THEN Comma ELSE Space

\* str::split(separator): the pieces of s[i..], cur being the piece begun
RECURSIVE SplitFrom(_, _, _, _)
SplitFrom(s, sep, i, cur) ==
    IF i > Len(s) THEN <<cur>>
    ELSE IF s[i] = sep THEN <<cur>> \o SplitFrom(s, sep, i + 1, <<>>)
    ELSE SplitFrom(s, sep, i + 1, Append(cur, s[i]))

Split(s, sep) == SplitFrom(s, sep, 1, <<>>)

\* Display of ParseIntError, given its Debug rendering
IntErrorDisplay(debug) ==
    CASE debug = "ParseIntError { kind: Empty }" ->
            "cannot parse integer from empty string"
      [] debug = "ParseIntError { kind: InvalidDigit }" ->
            "invalid digit found in string"
      [] debug = "ParseIntError { kind: PosOverflow }" ->
            "number too large to fit in target type"
      [] debug = "ParseIntError { kind: NegOverflow }" ->
            "number too small to fit in target type"

\* main.rs lines 85-91: the loop over the pieces, from piece j on; every
\* piece that converts is pushed at once
RECURSIVE ArgListPush(_, _, _)
ArgListPush(v, pieces, j) ==
    IF j > Len(pieces) THEN Ok(v)
    ELSE LET r == IntFromStr(IntV(0), pieces[j])
         IN  IF r.ok
             THEN ArgListPush([v EXCEPT !.l = Append(v.l, r.val.i)], pieces, j + 1)
             ELSE Fail(v, IntErrorDisplay(r.msg))

\* <ArgList<i32> as Value>::parse_from_string
ArgListParse(v, s) ==
    LET arg == StripQuoteSuffix(StripQuotePrefix(s))
    IN  ArgListPush(v, Split(arg, Separator(arg)), 1)

\* <ArgList<i32> as Value>::try_activate
ArgListActivate(v) == Fail(v, ActivateMsg)

\* the method of `dyn Value` a slot answers with
DynParse(v, s) ==
    IF v.kind = "list" THEN ArgListParse(v, s) ELSE parse_from_string(v, s)

DynActivate(v) ==
    IF v.kind = "list" THEN ArgListActivate(v) ELSE try_activate(v)

(***************************************************************************)
(* The registry: FlagSet.inner, a map from lookup key to Flag.             *)
(***************************************************************************)
Flag(name, own, value) == [name |-> name, own |-> own, value |-> value]

EmptyInner == [k \in {} |-> Flag(<<>>, "MutRef", BoolV(FALSE))]

\* HashMap::insert
Insert(m, key, f) == [k \in (DOMAIN m) \cup {key} |-> IF k = key THEN f ELSE m[k]]

\* the key a bind call registers the flag under
BindKey(name, allow_short) == IF allow_short THEN SubSeq(name, 1, 1) ELSE name

\* parse_name: the text after "--" or "-"; none for a plain token
IsFlagShaped(value) == StartsWith(value, <<Dash>>)

parse_name(value) ==
    IF StartsWith(value, DoubleDash) THEN StripPrefix(value, DoubleDash)
    ELSE StripPrefix(value, <<Dash>>)

\* FlagSet::has_flag panics on &name[..1] when name is empty and no flag
\* has the empty key
HasFlagPanics(m, name) == name \notin DOMAIN m /\ Len(name) = 0

has_flag(m, name) ==
    \/ name \in DOMAIN m
    \/ /\ SubSeq(name, 1, 1) \in DOMAIN m
       /\ m[SubSeq(name, 1, 1)].name = name

\* ValueRefParse with the RefCell variant parsing into a copy of the slot
ValueRefParseCopies(f, s) ==
    CASE f.own = "MutRef" -> DynParse(f.value, s)
      [] f.own = "RefCell" -> [DynParse(f.value, s) EXCEPT !.val = f.value]

\* ValueRef::parse_from_string: both variants hand the text to the slot
ValueRefParse(f, s) ==
    CASE f.own = "MutRef" -> DynParse(f.value, s)
      [] f.own = "RefCell" -> DynParse(f.value, s)

\* ValueRef::try_activate: both variants activate the slot
ValueRefActivate(f) ==
    CASE f.own = "MutRef" -> DynActivate(f.value)
      [] f.own = "RefCell" -> DynActivate(f.value)

\* get_mut(key) and try_activate on the flag found, its error ignored
Activate(m, key) ==
    IF key \in DOMAIN m /\ ValueRefActivate(m[key]).ok
    THEN [m EXCEPT ![key].value = ValueRefActivate(m[key]).val]
    ELSE m

Activated(m, key) == key \in DOMAIN m /\ ValueRefActivate(m[key]).ok

\* ClusterLoop with the loop left after its first activation
RECURSIVE ClusterLoopFirstOnly(_, _, _)
ClusterLoopFirstOnly(m, name, i) ==
    IF i > Len(name) THEN [inner |-> m, unknown |-> FALSE]
    ELSE IF ~has_flag(m, <<name[i]>>) THEN [inner |-> m, unknown |-> TRUE]
    ELSE ClusterLoopFirstOnly(IF i = 1 THEN Activate(m, <<name[i]>>) ELSE m,
                              name, i + 1)

\* the loop over name.chars() of FlagSet::parse, from character i on
RECURSIVE ClusterLoop(_, _, _)
ClusterLoop(m, name, i) ==
    IF i > Len(name) THEN [inner |-> m, unknown |-> FALSE]
    ELSE IF ~has_flag(m, <<name[i]>>) THEN [inner |-> m, unknown |-> TRUE]
    ELSE ClusterLoop(Activate(m, <<name[i]>>), name, i + 1)

(***************************************************************************)
(* FlagSet::parse, one iteration of `for arg in args`.                     *)
(* A parse state is [inner, remaining, flag, all_flags_parsed, ret].       *)
(***************************************************************************)
NoFlag == [some |-> FALSE, name |-> <<>>]
SomeFlag(name) == [some |-> TRUE, name |-> name]

Running == [kind |-> "none", list |-> <<>>, name |-> <<>>, msg |-> ""]
RetOk(list) == [kind |-> "Ok", list |-> list, name |-> <<>>, msg |-> ""]
UnknownFlag(name) == [kind |-> "UnknownFlag", list |-> <<>>, name |-> name, msg |-> ""]
ParseError(name, msg) == [kind |-> "ParseError", list |-> <<>>, name |-> name, msg |-> msg]
Panic == [kind |-> "panic", list |-> <<>>, name |-> <<>>, msg |-> ""]

\* SeesDoubleDash with the marker tested only when no flag is pending
SeesDoubleDashUnlessPending(st, arg) ==
    (arg = DoubleDash /\ ~st.flag.some) \/ st.all_flags_parsed

\* flags.rs lines 155-159
SeesDoubleDash(st, arg) == arg = DoubleDash \/ st.all_flags_parsed

\* PassStep with the push of line 160 left out
PassStepDropsArg(st, arg) == [st EXCEPT !.all_flags_parsed = TRUE]

\* flags.rs lines 159-162
PassStep(st, arg) ==
    [st EXCEPT !.all_flags_parsed = TRUE, !.remaining = Append(st.remaining, arg)]

\* ValueStep with the parsed value not written to the slot
ValueStepDropsValue(st, arg) ==
    LET name == st.flag.name
    IN  IF name \in DOMAIN st.inner
        THEN LET r == parse_from_string(st.inner[name].value, arg)
             IN  IF r.ok
                 THEN [st EXCEPT !.flag = NoFlag]
                 ELSE [st EXCEPT !.ret = ParseError(name, r.msg)]
        ELSE [st EXCEPT !.flag = NoFlag]

\* ValueStep with the conversion error ignored, as the cluster loop does
ValueStepSwallowsError(st, arg) ==
    LET name == st.flag.name
    IN  IF name \in DOMAIN st.inner
        THEN LET r == parse_from_string(st.inner[name].value, arg)
             IN  [st EXCEPT !.inner[name].value = r.val, !.flag = NoFlag]
        ELSE [st EXCEPT !.flag = NoFlag]

\* flags.rs lines 165-172
ValueStep(st, arg) ==
    LET name == st.flag.name
    IN  IF name \in DOMAIN st.inner
        THEN LET r == ValueRefParse(st.inner[name], arg)
             IN  IF r.ok
                 THEN [st EXCEPT !.inner[name].value = r.val, !.flag = NoFlag]
                 ELSE [st EXCEPT !.inner[name].value = r.val,
                                 !.ret = ParseError(name, r.msg)]
        ELSE [st EXCEPT !.flag = NoFlag]

\* SingleStep with flag = None of line 197 left out
SingleStepAlwaysPending(st, m, name) ==
    [st EXCEPT !.inner = Activate(m, name), !.flag = SomeFlag(name)]

\* flags.rs lines 193-199
SingleStep(st, m, name) ==
    [st EXCEPT !.inner = Activate(m, name),
               !.flag = IF Activated(m, name) THEN NoFlag ELSE SomeFlag(name)]

\* NameStep with all_flags_parsed = true of line 202 left out
NameStepKeepsScanning(st, arg) ==
    IF ~IsFlagShaped(arg)
    THEN [st EXCEPT !.remaining = Append(st.remaining, arg)]
    ELSE LET name == parse_name(arg)
         IN  IF HasFlagPanics(st.inner, name) THEN [st EXCEPT !.ret = Panic]
             ELSE IF has_flag(st.inner, name) THEN SingleStep(st, st.inner, name)
             ELSE LET c == ClusterLoop(st.inner, name, 1)
                  IN  IF c.unknown
                      THEN [st EXCEPT !.inner = c.inner, !.ret = UnknownFlag(name)]
                      ELSE SingleStep(st, c.inner, name)

\* NameStep with UnknownFlag carrying the first letter that does not resolve
NameStepNamesLetter(st, arg) ==
    IF ~IsFlagShaped(arg)
    THEN [st EXCEPT !.all_flags_parsed = TRUE, !.remaining = Append(st.remaining, arg)]
    ELSE LET name == parse_name(arg)
         IN  IF HasFlagPanics(st.inner, name) THEN [st EXCEPT !.ret = Panic]
             ELSE IF has_flag(st.inner, name) THEN SingleStep(st, st.inner, name)
             ELSE LET c == ClusterLoop(st.inner, name, 1)
                      bad == { i \in 1..Len(name) : ~has_flag(st.inner, <<name[i]>>) }
                  IN  IF c.unknown
                      THEN [st EXCEPT !.inner = c.inner,
                                      !.ret = UnknownFlag(
                                          <<name[CHOOSE i \in bad :
                                                    \A j \in bad : i <= j]>>)]
                      ELSE SingleStep(st, c.inner, name)

\* flags.rs lines 174-205
NameStep(st, arg) ==
    IF ~IsFlagShaped(arg)
    THEN [st EXCEPT !.all_flags_parsed = TRUE, !.remaining = Append(st.remaining, arg)]
    ELSE LET name == parse_name(arg)
         IN  IF HasFlagPanics(st.inner, name) THEN [st EXCEPT !.ret = Panic]
             ELSE IF has_flag(st.inner, name) THEN SingleStep(st, st.inner, name)
             ELSE LET c == ClusterLoop(st.inner, name, 1)
                  IN  IF c.unknown
                      THEN [st EXCEPT !.inner = c.inner, !.ret = UnknownFlag(name)]
                      ELSE SingleStep(st, c.inner, name)

\* the body of the for loop
Step(st, arg) ==
    IF SeesDoubleDash(st, arg) THEN PassStep(st, arg)
    ELSE IF st.flag.some THEN ValueStep(st, arg)
    ELSE NameStep(st, arg)

\* Finish that rejects an input ending on a flag that awaits its value
FinishRejectsPending(st) ==
    [st EXCEPT !.ret = IF st.flag.some
                       THEN ParseError(st.flag.name, "")
                       ELSE RetOk(st.remaining)]

\* flags.rs line 210
Finish(st) == [st EXCEPT !.ret = RetOk(st.remaining)]

\* StartState with a flag held over as awaiting its value
StartStatePending(m) ==
    [inner |-> m, remaining |-> <<>>, flag |-> SomeFlag(<<"a">>),
     all_flags_parsed |-> FALSE, ret |-> Running]

\* flags.rs lines 150-152
StartState(m) ==
    [inner |-> m, remaining |-> <<>>, flag |-> NoFlag,
     all_flags_parsed |-> FALSE, ret |-> Running]

\* FlagSet::parse on a whole token sequence, from token i on
RECURSIVE ParseFrom(_, _, _)
ParseFrom(st, tokens, i) ==
    IF st.ret.kind # "none" THEN st
    ELSE IF i > Len(tokens) THEN Finish(st)
    ELSE ParseFrom(Step(st, tokens[i]), tokens, i + 1)

parse(m, tokens) == ParseFrom(StartState(m), tokens, 1)

(***************************************************************************)
(* Inputs.                                                                 *)
(***************************************************************************)
Names == { <<"a">>, <<"b">>, <<"a", "b">> }

InitialValues ==
    { BoolV(FALSE), IntV(0), CharV("x"), StringV(<<>>), StringV(TrueText) }

Tokens ==
    { <<"-", "a">>, <<"-", "-", "a">>,
      <<"-", "a", "b">>, <<"-", "-", "a", "b">>, <<"-", "b", "a">>,
      <<"-", "z">>, <<"-", "-">>, <<"-">>, <<"-", "-", "-">>,
      <<>>, <<"x">>, <<"1">>, <<"-", "1">> }

(***************************************************************************)
(* The state machine.                                                      *)
(***************************************************************************)
State ==
    [inner |-> inner, remaining |-> remaining, flag |-> flag,
     all_flags_parsed |-> all_flags_parsed, ret |-> ret]

Init ==
    /\ inner = EmptyInner
    /\ pc = "bind"
    /\ bound = EmptyInner
    /\ args = <<>>
    /\ remaining = <<>>
    /\ flag = NoFlag
    /\ all_flags_parsed = FALSE
    /\ ret = Running

\* FlagSet::bind_mut_ref / FlagSet::bind_ref_cell
Bind(name, allow_short, own, value) ==
    /\ pc = "bind"
    /\ Cardinality(DOMAIN inner) < MaxFlags
    /\ inner' = Insert(inner, BindKey(name, allow_short), Flag(name, own, value))
    /\ pc' = IF BindKey(name, allow_short) \in DOMAIN inner THEN "panic" ELSE "bind"
    /\ UNCHANGED <<bound, args, remaining, flag, all_flags_parsed, ret>>

bind_mut_ref ==
    \E name \in Names, allow_short \in BOOLEAN, value \in InitialValues :
        Bind(name, allow_short, "MutRef", value)

bind_ref_cell ==
    \E name \in Names, allow_short \in BOOLEAN, value \in InitialValues :
        Bind(name, allow_short, "RefCell", value)

\* FlagSet::parse is called: lines 150-152
ParseCall ==
    /\ pc = "bind"
    /\ pc' = "parse"
    /\ remaining' = <<>>
    /\ flag' = NoFlag
    /\ all_flags_parsed' = FALSE
    /\ ret' = Running
    /\ bound' = inner
    /\ UNCHANGED <<inner, args>>

\* one iteration of the loop, on the token arg
TakeArg(arg) ==
    LET st == Step(State, arg)
    IN  /\ pc = "parse"
        /\ Len(args) < MaxArgs
        /\ args' = Append(args, arg)
        /\ inner' = st.inner
        /\ remaining' = st.remaining
        /\ flag' = st.flag
        /\ all_flags_parsed' = st.all_flags_parsed
        /\ ret' = st.ret
        /\ pc' = IF st.ret.kind = "none" THEN "parse"
                 ELSE IF st.ret.kind = "panic" THEN "panic" ELSE "done"
        /\ UNCHANGED bound

\* one iteration of the loop, on the next token of the input
ParseArg == \E arg \in Tokens : TakeArg(arg)

\* the input is exhausted: Ok(remaining)
ParseReturn ==
    /\ pc = "parse"
    /\ ret' = Finish(State).ret
    /\ pc' = "done"
    /\ UNCHANGED <<inner, bound, args, remaining, flag, all_flags_parsed>>

Next ==
    \/ bind_mut_ref
    \/ bind_ref_cell
    \/ ParseCall
    \/ ParseArg
    \/ ParseReturn

Spec == Init /\ [][Next]_vars

(***************************************************************************)
(* The same machine over registries that hold list slots (ArgList), as     *)
(* create_cutter of main.rs binds them, with list-shaped value tokens.     *)
(***************************************************************************)
ListNames == { <<"a">>, <<"b">> }

ListSpecValues ==
    { ListV(<<>>), ListV(<<7>>), BoolV(FALSE), IntV(0), CharV("x"),
      StringV(<<>>), StringV(FalseText) }

ListTokens ==
    { <<"-", "a">>, <<"-", "b">>, <<"-", "-">>, <<>>, <<"1">>,
      <<"1", ",", "2">>, <<"\"", "1", " ", "2", "\"">>, <<"1", ",", "x">> }

\* main.rs lines 21-26: flag_set.bind_mut_ref(name, true, &mut slot, "")
bind_slot ==
    \E name \in ListNames, value \in ListSpecValues :
        Bind(name, TRUE, "MutRef", value)

ParseListArg == \E arg \in ListTokens : TakeArg(arg)

NextList ==
    \/ bind_slot
    \/ ParseCall
    \/ ParseListArg
    \/ ParseReturn

SpecList == Init /\ [][NextList]_vars

(***************************************************************************)
(* Vocabulary of the properties.                                           *)
(***************************************************************************)
ShortTok(k) == <<Dash>> \o k
LongTok(k) == DoubleDash \o k
IsPlain(t) == ~IsFlagShaped(t)
Scanning == pc = "parse" /\ ~all_flags_parsed /\ ~flag.some
AwaitingValue == pc = "parse" /\ ~all_flags_parsed /\ flag.some
Returned == pc = "done"
BoolShaped(v) == to_string(v) = TrueText \/ to_string(v) = FalseText
Letters == { n[1] : n \in { x \in Names : Len(x) = 1 } }
Clusters ==
    { <<x, y>> : x \in Letters, y \in Letters }
        \cup { <<x, y, z>> : x \in Letters, y \in Letters, z \in Letters }
LettersOf(c) == { <<c[i]>> : i \in 1..Len(c) }

(***************************************************************************)
(* C1.  As claimed: for every flag reachable as x whose slot is string-,   *)
(* integer- or character-typed and every token v the slot's type can      *)
(* parse, parse(["-x", v]) succeeds with an empty positional list and     *)
(* leaves the slot equal to the parsed value of v.                         *)
(***************************************************************************)
C1_Case(k) ==
    /\ Len(args) = 2
    /\ args[1] = ShortTok(k)
    /\ bound[k].value.kind \in {"string", "int", "char"}
    /\ parse_from_string(bound[k].value, args[2]).ok

C1_Post(k) ==
    /\ ret = RetOk(<<>>)
    /\ inner[k].value = parse_from_string(bound[k].value, args[2]).val

\* C1 as stated, for every v: refuted by v = "--" (and by a String slot that
\* holds "true" or "false" when parse is called).
C1_AnyValueIsStored ==
    Returned => \A k \in DOMAIN bound : C1_Case(k) => C1_Post(k)

\* C1 amended: parse(["-x", v]) returns Ok([]) and leaves the slot equal to
\* the parsed value of v, for every parsable v other than the literal "--"
\* and every slot whose text is not "true" or "false" when parse is called.
C1_ValueIsStored ==
    Returned =>
        \A k \in DOMAIN bound :
            (C1_Case(k) /\ args[2] # DoubleDash /\ ~BoolShaped(bound[k].value))
                => C1_Post(k)

\* a value token that starts with a dash has been stored by parse(["-x", v])
C1_Witness ==
    /\ Returned
    /\ \E k \in DOMAIN bound :
        /\ C1_Case(k) /\ args[2] # DoubleDash /\ ~BoolShaped(bound[k].value)
        /\ IsFlagShaped(args[2])
        /\ inner[k].value # bound[k].value
        /\ C1_Post(k)

(***************************************************************************)
(* C2.  For a boolean-typed flag b, the token -b or --b met in Scanning    *)
(* sets the slot to true and leaves the parser in Scanning, no token      *)
(* awaited; parse(["-b"] ++ rest) with rest plain tokens sets the slot and *)
(* returns exactly rest.                                                   *)
(***************************************************************************)
C2_StepSetsTrue(k, tok) ==
    LET st == Step(State, tok)
    IN  /\ st.inner = [inner EXCEPT ![k].value = BoolV(TRUE)]
        /\ st.flag = NoFlag
        /\ ~st.all_flags_parsed
        /\ st.remaining = remaining
        /\ st.ret = Running

\* C2: -b / --b on a boolean flag sets the slot true and awaits no value;
\* parse(["-b"] ++ rest), rest plain, returns rest.
C2_BoolFlag ==
    /\ Scanning =>
        \A k \in DOMAIN inner :
            inner[k].value.kind = "bool" =>
                C2_StepSetsTrue(k, ShortTok(k)) /\ C2_StepSetsTrue(k, LongTok(k))
    /\ Returned =>
        \A k \in DOMAIN bound :
            ( /\ bound[k].value.kind = "bool"
              /\ Len(args) >= 1
              /\ args[1] \in {ShortTok(k), LongTok(k)}
              /\ \A i \in 2..Len(args) : IsPlain(args[i]) )
                => /\ ret = RetOk(Tail(args))
                   /\ inner[k].value = BoolV(TRUE)

\* parse(["-b", rest]) has set the slot and returned [rest]
C2_Witness ==
    /\ Returned
    /\ \E k \in DOMAIN bound :
        /\ bound[k].value = BoolV(FALSE)
        /\ Len(args) = 2
        /\ args[1] \in {ShortTok(k), LongTok(k)}
        /\ IsPlain(args[2])
        /\ ret = RetOk(<<args[2]>>)
        /\ inner[k].value = BoolV(TRUE)

(***************************************************************************)
(* C3.  A cluster token: a dash and two or more letters, each a registered *)
(* single-letter boolean flag, the cluster text not itself a flag.  parse  *)
(* succeeds on it, every flag named in it is set to true and every other   *)
(* flag keeps its value.                                                   *)
(***************************************************************************)
C3_IsCluster(m, c) ==
    /\ c \notin DOMAIN m
    /\ \A l \in LettersOf(c) :
        l \in DOMAIN m /\ m[l].name = l /\ m[l].value.kind = "bool"

C3_Set(m, c) ==
    [k \in DOMAIN m |->
        IF k \in LettersOf(c) THEN [m[k] EXCEPT !.value = BoolV(TRUE)] ELSE m[k]]

\* C3: a cluster of registered single-letter boolean flags raises no error,
\* sets every named slot true and leaves every other flag as it was.
C3_Cluster ==
    /\ Scanning =>
        \A c \in Clusters :
            C3_IsCluster(inner, c) =>
                LET st == Step(State, ShortTok(c))
                IN  /\ st.ret = Running
                    /\ st.inner = C3_Set(inner, c)
                    /\ Finish(st).ret.kind = "Ok"
    /\ Returned =>
        \A c \in Clusters :
            (Len(args) = 1 /\ args[1] = ShortTok(c) /\ C3_IsCluster(bound, c))
                => ret.kind = "Ok" /\ inner = C3_Set(bound, c)

\* parse(["-ba"]) has returned Ok with both flags, false before, now true
C3_Witness ==
    /\ Returned
    /\ ret.kind = "Ok"
    /\ \E c \in Clusters :
        /\ args = <<ShortTok(c)>>
        /\ C3_IsCluster(bound, c)
        /\ Cardinality(LettersOf(c)) > 1
        /\ \A l \in LettersOf(c) :
            bound[l].value = BoolV(FALSE) /\ inner[l].value = BoolV(TRUE)

(***************************************************************************)
(* C4.  A flag-shaped token met in Scanning whose name is not a registered *)
(* flag, a single letter -z or a long --name, makes parse fail with        *)
(* UnknownFlag(name), whatever single-letter flags are registered.         *)
(* Stated for the first token of the call, which is always met in          *)
(* Scanning.                                                               *)
(***************************************************************************)
C4_IsLong(t) == StartsWith(t, DoubleDash) /\ Len(t) > 2
C4_IsSingleLetter(t) == IsFlagShaped(t) /\ Len(t) = 2 /\ t # DoubleDash

\* C4: an unregistered -z or --name as first token fails with
\* UnknownFlag(name).
C4_UnknownFlag ==
    ( /\ pc # "bind"
      /\ Len(args) = 1
      /\ C4_IsLong(args[1]) \/ C4_IsSingleLetter(args[1])
      /\ ~has_flag(bound, parse_name(args[1])) )
        => ret = UnknownFlag(parse_name(args[1]))

(***************************************************************************)
(* C5.  The token -- starts the passthrough and is not itself emitted:     *)
(* when it is the first token of the call, parse returns exactly the       *)
(* tokens after it, verbatim and in order.                                 *)
(***************************************************************************)
\* C5: parse(["--"] ++ rest) returns exactly rest.
C5_MarkerNotEmitted ==
    (Returned /\ Len(args) >= 1 /\ args[1] = DoubleDash)
        => ret = RetOk(Tail(args))

(***************************************************************************)
(* C6.  A plain token met in Scanning with no flag pending is appended to  *)
(* the positional output and starts the passthrough; from then on every    *)
(* token, flag-shaped or not, is appended verbatim, no slot is mutated and *)
(* no error is raised, so that the positional list is the input from that  *)
(* plain token on.                                                         *)
(***************************************************************************)
C6_Passed(st, tok) ==
    /\ st.all_flags_parsed
    /\ st.remaining = Append(remaining, tok)
    /\ st.inner = inner
    /\ st.ret = Running

C6_BegunByPlain == all_flags_parsed /\ remaining # <<>> /\ remaining[1] # DoubleDash

\* C6: after a plain token met in Scanning every token is emitted verbatim,
\* no slot changes and no error is raised.
C6_PlainStartsPassthrough ==
    /\ Scanning => \A tok \in Tokens : IsPlain(tok) => C6_Passed(Step(State, tok), tok)
    /\ (pc = "parse" /\ C6_BegunByPlain) =>
        \A tok \in Tokens : C6_Passed(Step(State, tok), tok)
    /\ (pc \in {"parse", "done"} /\ C6_BegunByPlain) =>
        /\ IsPlain(remaining[1])
        /\ Len(remaining) <= Len(args)
        /\ remaining = SubSeq(args, Len(args) - Len(remaining) + 1, Len(args))
        /\ ret \in {Running, RetOk(remaining)}

\* a flag-shaped token of no registered flag was emitted after a plain one
C6_Witness ==
    /\ Returned
    /\ ret.kind = "Ok"
    /\ Len(ret.list) >= 2
    /\ IsPlain(ret.list[1])
    /\ C4_IsSingleLetter(ret.list[2])
    /\ ~has_flag(inner, parse_name(ret.list[2]))
    /\ Len(args) > Len(ret.list)

(***************************************************************************)
(* C7.  As claimed: in AwaitingValue(name) with name registered, a token   *)
(* that cannot be converted to the slot's type makes parse fail with       *)
(* ParseError(name, message of the conversion).                            *)
(***************************************************************************)
C7_Case(k) ==
    /\ pc # "bind"
    /\ Len(args) = 2
    /\ k \in DOMAIN bound
    /\ args[1] = ShortTok(k)
    /\ ~try_activate(bound[k].value).ok
    /\ ~parse_from_string(bound[k].value, args[2]).ok

C7_Post(k) ==
    /\ ret = ParseError(k, parse_from_string(bound[k].value, args[2]).msg)
    /\ pc = "done"
    /\ inner = bound

\* C7 as stated, for every token: refuted by the token "--", which is never
\* given to the pending flag.
C7_AnyBadValueFails ==
    \A k \in DOMAIN bound : C7_Case(k) => C7_Post(k)

\* C7 amended: in AwaitingValue(name) with name registered, a token other
\* than the literal "--" that cannot be converted makes parse fail with
\* ParseError(name, message of the conversion), no positional list returned
\* and the slot left as it was.
C7_BadValueFails ==
    /\ AwaitingValue =>
        \A tok \in Tokens :
            ( /\ tok # DoubleDash
              /\ flag.name \in DOMAIN inner
              /\ ~parse_from_string(inner[flag.name].value, tok).ok )
                => LET st == Step(State, tok)
                   IN  /\ st.ret = ParseError(flag.name,
                              parse_from_string(inner[flag.name].value, tok).msg)
                       /\ st.ret.msg # ""
                       /\ st.inner = inner
    /\ \A k \in DOMAIN bound : (C7_Case(k) /\ args[2] # DoubleDash) => C7_Post(k)

\* parse(["-x", v]) has failed with ParseError on an unconvertible v
C7_Witness ==
    /\ Returned
    /\ ret.kind = "ParseError"
    /\ \E k \in DOMAIN bound : C7_Case(k) /\ args[2] # DoubleDash /\ C7_Post(k)

(***************************************************************************)
(* C8.  For a flag bound with allow_short_alias under the name N with      *)
(* first character c, -c and --N designate the same flag: as the first     *)
(* token of a call, --N in place of -c gives the same slot values and the  *)
(* same result.                                                            *)
(***************************************************************************)
C8_Aliased(m, k) == Len(k) = 1 /\ m[k].name[1] = k[1]

\* C8: --N in place of -c gives the same slots and the same result.
C8_ShortEqualsLong ==
    Returned =>
        \A k \in DOMAIN bound :
            (Len(args) >= 1 /\ args[1] = ShortTok(k) /\ C8_Aliased(bound, k))
                => LET long == parse(bound, <<LongTok(bound[k].name)>> \o Tail(args))
                   IN  long.inner = inner /\ long.ret = ret

(***************************************************************************)
(* C9.  For every registry and every token sequence parse returns a        *)
(* positional list, UnknownFlag or ParseError: it never panics.            *)
(***************************************************************************)
\* C9: parse never ends in a panic.
C9_ParseNeverPanics == ret.kind # "panic"

(***************************************************************************)
(* C10.  After bind calls none of which failed fatally, the canonical      *)
(* names of the registered flags are pairwise distinct and no short alias  *)
(* equals another flag's alias or canonical name.                          *)
(***************************************************************************)
\* C10: registered canonical names are pairwise distinct and no key equals
\* another flag's name.
C10_NamesDistinct ==
    pc = "bind" =>
        \A k1 \in DOMAIN inner, k2 \in DOMAIN inner :
            k1 # k2 => inner[k1].name # inner[k2].name /\ k1 # inner[k2].name

(***************************************************************************)
(* C11.  Binding through the shared handle (bind_ref_cell) is equivalent   *)
(* to binding exclusively (bind_mut_ref): with every flag of the registry  *)
(* bound the other way, the same tokens give the same result and the same  *)
(* slot values.                                                            *)
(***************************************************************************)
SwapOwn(m) ==
    [k \in DOMAIN m |->
        [m[k] EXCEPT !.own = IF @ = "MutRef" THEN "RefCell" ELSE "MutRef"]]

SlotValues(m) == [k \in DOMAIN m |-> m[k].value]

ParseEnded == pc = "done" \/ ret.kind = "panic"

\* C11: the call on the registry bound the other way ends with the same
\* result and the same slot values.
C11_OwnershipEquivalent ==
    ParseEnded =>
        LET other == parse(SwapOwn(bound), args)
        IN  /\ other.ret = ret
            /\ SlotValues(other.inner) = SlotValues(inner)

\* a slot bound by bind_ref_cell has been written by a successful parse
C11_Witness ==
    /\ Returned
    /\ ret.kind = "Ok"
    /\ \E k \in DOMAIN bound :
        /\ bound[k].own = "RefCell"
        /\ bound[k].value.kind = "int"
        /\ inner[k].value # bound[k].value
        /\ parse(SwapOwn(bound), args).inner[k].value = inner[k].value

(***************************************************************************)
(* C12                                                                     *)
(***************************************************************************)
\* the elements the text names: what parsing it into an empty list gives
ElementsOf(text) == ArgListParse(ListV(<<>>), text)

\* a list flag k takes the value that follows it
C12_Case(k) ==
    /\ Len(args) >= 2
    /\ args[Len(args) - 1] = ShortTok(k)
    /\ parse(bound, SubSeq(args, 1, Len(args) - 2)).flag = NoFlag
    /\ parse(bound, SubSeq(args, 1, Len(args) - 2)).remaining = <<>>
    /\ k \in DOMAIN bound
    /\ bound[k].value.kind = "list"
    /\ ElementsOf(args[Len(args)]).ok

\* C12: a list slot that takes a text that converts holds exactly the
\* elements of that text afterwards, whatever it held before; "1,2" and
\* "\"1 2\"" both give [1, 2].
C12_ListOverwritten ==
    /\ ElementsOf(<<"1", ",", "2">>).val = ListV(<<1, 2>>)
    /\ ElementsOf(<<"\"", "1", " ", "2", "\"">>).val = ListV(<<1, 2>>)
    /\ \A k \in ListNames :
        (Returned /\ ret.kind = "Ok" /\ C12_Case(k)) =>
            inner[k].value = ElementsOf(args[Len(args)]).val

(***************************************************************************)
(* C13                                                                     *)
(***************************************************************************)
\* parse(s1) and then, on the same slots, parse(s2): the error of the call
\* that fails, else the positionals of both; and the slots at the end
TwoCalls(m, s1, s2) ==
    LET p1 == parse(m, s1)
    IN  IF p1.ret.kind # "Ok"
        THEN [ret |-> p1.ret, values |-> SlotValues(p1.inner)]
        ELSE LET p2 == parse(p1.inner, s2)
             IN  [ret |-> IF p2.ret.kind = "Ok"
                          THEN RetOk(p1.ret.list \o p2.ret.list)
                          ELSE p2.ret,
                  values |-> SlotValues(p2.inner)]

OneCall == [ret |-> ret, values |-> SlotValues(inner)]

SplitAt(i) == TwoCalls(bound, SubSeq(args, 1, i), SubSeq(args, i + 1, Len(args)))

\* s1 holds neither -- nor a token that starts passthrough
C13_NoBoundary(i) == ~parse(bound, SubSeq(args, 1, i)).all_flags_parsed

\* s1 does not end on a flag that still awaits its value
C13_NothingPending(i) == ~parse(bound, SubSeq(args, 1, i)).flag.some

\* C13 as stated: every split whose first part has no -- and no passthrough
\* start gives the slots, positionals and error of the single call.
C13_AnySplitEquivalent ==
    ParseEnded =>
        \A i \in 0..Len(args) : C13_NoBoundary(i) => SplitAt(i) = OneCall

\* C13: every split whose first part has no -- and no passthrough start and
\* leaves no flag awaiting a value gives the slots, positionals and error of
\* the single call.
C13_SplitEquivalent ==
    ParseEnded =>
        \A i \in 0..Len(args) :
            (C13_NoBoundary(i) /\ C13_NothingPending(i)) => SplitAt(i) = OneCall

C13_Witness ==
    /\ Returned
    /\ ret.kind = "Ok"
    /\ \E i \in 1..(Len(args) - 1) :
        LET p1 == parse(bound, SubSeq(args, 1, i))
        IN  /\ C13_NoBoundary(i)
            /\ C13_NothingPending(i)
            /\ p1.inner # bound
            /\ inner # p1.inner
            /\ SplitAt(i) = OneCall

(***************************************************************************)
(* C14                                                                     *)
(***************************************************************************)
\* c is not a flag name and each of its letters resolves via has_flag
C14_IsCluster(m, c) ==
    /\ ~HasFlagPanics(m, c)
    /\ ~has_flag(m, c)
    /\ \A l \in LettersOf(c) : has_flag(m, l)

\* the token just processed was the cluster c, met while scanning
C14_JustProcessed(c) ==
    /\ pc = "parse"
    /\ Len(args) >= 1
    /\ args[Len(args)] = ShortTok(c)
    /\ LET before == parse(bound, SubSeq(args, 1, Len(args) - 1))
       IN  /\ ~before.flag.some
           /\ ~before.all_flags_parsed
           /\ C14_IsCluster(before.inner, c)

\* C14: after a cluster token the parser is scanning with no pending flag,
\* and parse(["-ba", rest]) with boolean a and b returns [rest].
C14_NoPendingAfterCluster ==
    \A c \in Clusters :
        /\ C14_JustProcessed(c) => Scanning
        /\ ( /\ Returned
             /\ Len(args) = 2
             /\ args[1] = ShortTok(c)
             /\ C3_IsCluster(bound, c)
             /\ IsPlain(args[2]) )
                => ret = RetOk(<<args[2]>>)

(***************************************************************************)
(* C15                                                                     *)
(***************************************************************************)
\* clusters over the registered letters and the never registered letter z
C15_Clusters ==
    LET ls == Letters \cup {"z"}
    IN  { <<x, y>> : x \in ls, y \in ls }
            \cup { <<x, y, z>> : x \in ls, y \in ls, z \in ls }

\* c is not a flag name and one of its letters does not resolve
C15_HasUnknownLetter(m, c) ==
    /\ ~HasFlagPanics(m, c)
    /\ ~has_flag(m, c)
    /\ \E l \in LettersOf(c) : ~has_flag(m, l)

C16_EndsOnFlag(k) ==
    /\ Len(args) >= 1
    /\ IsFlagShaped(args[Len(args)])
    /\ parse_name(args[Len(args)]) = k
    /\ LET before == parse(bound, SubSeq(args, 1, Len(args) - 1))
       IN  /\ ~before.flag.some
           /\ ~before.all_flags_parsed
           /\ k \in DOMAIN before.inner
           /\ ~BoolShaped(before.inner[k].value)

\* C16: when the tokens end while a flag awaits its value, parse returns Ok
\* with the positionals built so far and the flag's slot is as it was before
\* the flag token.
C16_EndWhileAwaiting ==
    /\ AwaitingValue =>
        /\ Finish(State).ret = RetOk(remaining)
        /\ Finish(State).inner = inner
    /\ \A k \in Names :
        (Returned /\ C16_EndsOnFlag(k)) =>
            /\ ret = RetOk(<<>>)
            /\ inner[k].value =
                 parse(bound, SubSeq(args, 1, Len(args) - 1)).inner[k].value

\* parse has returned on an input that set a flag and then ended on an
\* integer flag left without value
C16_Witness ==
    /\ Returned
    /\ Len(args) >= 2
    /\ \E k \in Names :
        /\ C16_EndsOnFlag(k)
        /\ bound[k].value.kind = "int"
        /\ inner # bound
        /\ inner[k].value = bound[k].value
        /\ ret = RetOk(<<>>)

(***************************************************************************)
(* C17                                                                     *)
(***************************************************************************)
\* the slots as the tokens before the last one consumed left them
C17_SlotsBeforeLast == parse(bound, SubSeq(args, 1, Len(args) - 1)).inner

\* C17: when parse has failed with UnknownFlag or ParseError at a token,
\* every slot holds the value that the tokens before it produced.
C17_FailingTokenHasNoEffect ==
    (Returned /\ ret.kind \in {"UnknownFlag", "ParseError"}) =>
        inner = C17_SlotsBeforeLast

(***************************************************************************)
(* C18                                                                     *)
(***************************************************************************)
\* C18: a value text that fails to convert gives a message and leaves the
\* slot as it was before the call, for scalar and for list slots.
C18_FailedParseLeavesSlot ==
    /\ (pc = "parse" /\ flag.some /\ flag.name \in DOMAIN inner) =>
        \A tok \in ListTokens :
            LET r == ValueRefParse(inner[flag.name], tok)
            IN  ~r.ok => (r.msg # "" /\ r.val = inner[flag.name].value)
    /\ (Returned /\ ret.kind = "ParseError") =>
        /\ ret.msg # ""
        /\ inner[ret.name].value =
             parse(bound, SubSeq(args, 1, Len(args) - 1)).inner[ret.name].value

(***************************************************************************)
(* C19                                                                     *)
(***************************************************************************)
\* the slot's text rendering is exactly "true" or "false"
C19_RendersAsBool(v) == v.kind # "list" /\ BoolShaped(v)

\* try_activate on the slot v, as the registry calls it
C19_Activation(v) ==
    LET r == ValueRefActivate(Flag(<<"a">>, "MutRef", v))
    IN  /\ r.ok <=> C19_RendersAsBool(v)
        /\ r.ok => to_string(r.val) = TrueText /\ r.val.kind = v.kind
        /\ ~r.ok => r.msg = ActivateMsg /\ r.val = v
        /\ v.kind = "list" => ~r.ok

\* C19: try_activate succeeds exactly on a slot that renders as "true" or
\* "false" and then sets it to true; otherwise it fails with the fixed
\* message and leaves the slot, and a single-flag token leaves the parser
\* awaiting that flag's value; list slots always fail.
C19_TryActivate ==
    /\ \A k \in DOMAIN inner : C19_Activation(inner[k].value)
    /\ Scanning =>
        \A k \in DOMAIN inner :
            LET st == Step(State, ShortTok(k))
            IN  IF C19_RendersAsBool(inner[k].value)
                THEN /\ st.flag = NoFlag
                     /\ to_string(st.inner[k].value) = TrueText
                ELSE /\ st.flag = SomeFlag(k)
                     /\ st.inner = inner
                     /\ st.ret = Running

\* a text slot holding "false" has been activated to "true" and then a list
\* flag's token has left the parser awaiting the list's value
C19_Witness ==
    /\ pc = "parse"
    /\ Len(args) = 2
    /\ \E j, k \in ListNames :
        /\ args = <<ShortTok(j), ShortTok(k)>>
        /\ j \in DOMAIN bound /\ k \in DOMAIN bound
        /\ bound[j].value = StringV(FalseText)
        /\ inner[j].value = StringV(TrueText)
        /\ bound[k].value.kind = "list"
        /\ inner[k] = bound[k]
        /\ flag = SomeFlag(k)

(***************************************************************************)
(* C20                                                                     *)
(***************************************************************************)
\* the last n tokens of the input, and the tokens before them
C20_Suffix(n) == SubSeq(args, Len(args) - n + 1, Len(args))
C20_Prefix(n) == SubSeq(args, 1, Len(args) - n)

\* C20: the positionals of a successful parse are the input's last tokens,
\* in the input's order, and none of them was consumed as a flag name or a
\* flag value: the slots are those the tokens before them produced.
C20_PositionalsAreSuffix ==
    /\ pc = "parse" =>
        /\ Len(remaining) <= Len(args)
        /\ remaining = C20_Suffix(Len(remaining))
    /\ (Returned /\ ret.kind = "Ok") =>
        /\ Len(ret.list) <= Len(args)
        /\ ret.list = C20_Suffix(Len(ret.list))
        /\ inner = parse(bound, C20_Prefix(Len(ret.list))).inner

\* parse has set a flag and then returned two positionals, the second of
\* them shaped like a registered flag
C20_Witness ==
    /\ Returned
    /\ ret.kind = "Ok"
    /\ Len(args) = 3
    /\ Len(ret.list) = 2
    /\ inner # bound
    /\ IsPlain(args[2])
    /\ IsFlagShaped(args[3])
    /\ parse_name(args[3]) \in DOMAIN bound
    /\ ret.list = <<args[2], args[3]>>

(***************************************************************************)
(* C21                                                                     *)
(***************************************************************************)
\* token i of the input was --, met while a flag awaited its value
C21_MarkerWhilePending(i) ==
    /\ args[i] = DoubleDash
    /\ LET before == parse(bound, SubSeq(args, 1, i - 1))
       IN  /\ before.ret.kind = "Ok"
           /\ before.flag.some
           /\ ~before.all_flags_parsed

\* the slots before token i
C21_SlotsBefore(i) == parse(bound, SubSeq(args, 1, i - 1)).inner

\* C21: a -- that arrives while a flag awaits its value is not given to the
\* flag: no slot changes, no error is raised, and that token and every later
\* one only go to the positionals.
C21_MarkerBeforePending ==
    /\ AwaitingValue =>
        LET st == Step(State, DoubleDash)
        IN  /\ st.inner = inner
            /\ st.ret = Running
            /\ st.all_flags_parsed
            /\ \A tok \in Tokens :
                LET st2 == Step(st, tok)
                IN  /\ st2.inner = inner
                    /\ st2.ret = Running
                    /\ st2.all_flags_parsed
                    /\ st2.remaining = Append(st.remaining, tok)
    /\ \A i \in 1..Len(args) :
        (pc # "bind" /\ C21_MarkerWhilePending(i)) =>
            /\ inner = C21_SlotsBefore(i)
            /\ all_flags_parsed
            /\ ret.kind \in {"none", "Ok"}
            /\ Len(remaining) = Len(args) - i + 1
            /\ Returned => ret.kind = "Ok"

\* parse has returned after a text flag, whose slot would have taken "--" as
\* its value, was followed by -- and one more token
C21_Witness ==
    /\ Returned
    /\ ret.kind = "Ok"
    /\ Len(args) = 3
    /\ C21_MarkerWhilePending(2)
    /\ \E k \in DOMAIN bound :
        /\ IsFlagShaped(args[1])
        /\ parse_name(args[1]) = k
        /\ bound[k].value.kind = "string"
        /\ parse_from_string(bound[k].value, DoubleDash).ok
        /\ inner = bound
    /\ IsFlagShaped(args[3])

====
